---- MODULE Spec2Model ----
(***************************************************************************)
(* TradeTrail: the session engine of src/app.py and src/helpers.py.        *)
(*                                                                         *)
(* One asyncio event loop runs the websocket handlers create_session and   *)
(* join_session; SessionsManager.launch_session starts one OS thread per   *)
(* call, which runs SessionsManager.handle_session (the Broadcast Loop).   *)
(*                                                                         *)
(* Representation.  Python str is a TLA+ string (Len, SubSeq and \o act on *)
(* characters).  A Python float is an integer number of tenths, so that    *)
(* shares * price is a number of hundredths: balance is kept in            *)
(* hundredths, available_shares in tenths.  A Session object is named by   *)
(* the create request that constructed it (app.py:37), a WebSocket by the  *)
(* request it belongs to.                                                  *)
(***************************************************************************)
EXTENDS Integers, Sequences, FiniteSets, TLC

\* ------------------------------------------------------------------ bounds
MaxMsgs == 1         \* frames the clients send, all connections together
MaxTicks == 2        \* price ticks one Broadcast Loop generates
MaxCalls == 4        \* create requests, join requests and launch_session calls
MaxOrders == 2       \* messages handed to one ledger's handle_message

Creators == {"c1", "c2"}          \* create-session requests (/ws/create)
Joiners == {"j1", "j2"}           \* join-session requests (/ws/join)
Threads == {"t1", "t2"}           \* threads launch_session can start
SessionIds == {1, 2}              \* values of the id / session_id parameter
ClientIds == {-1, 5}              \* client_id values (-1 is what bots send)
Capacities == {0, 1, 2}           \* max_clients values
Durations == {0, 1}               \* duration values, in seconds
Balances == {10000}               \* starting_balance 100.0, in hundredths
Prices == {1}                     \* values random.random() is drawn from
AgentFlags == {FALSE}             \* is_agent values
Handlers == Creators \cup Joiners

\* Order messages a client sends (text frames).
Messages ==
    { "type:buy,shares:2,price:10.5",
      "shares:2,price:10" }

\* Order messages in the documented format, the three fields in any order.
Sides == {"buy", "sell"}
ShareLits == {"2"}
PriceLits == {"10.5", "3"}
FieldOrders ==
    { <<1, 2, 3>>, <<1, 3, 2>>, <<2, 1, 3>>, <<2, 3, 1>>, <<3, 1, 2>>, <<3, 2, 1>> }

Fragments(side, shares, price) ==
    << "type:" \o side, "shares:" \o shares, "price:" \o price >>

OrderText(perm, side, shares, price) ==
    LET f == Fragments(side, shares, price)
    IN  f[perm[1]] \o "," \o f[perm[2]] \o "," \o f[perm[3]]

ValidOrders ==
    { OrderText(perm, side, shares, price) :
        perm \in FieldOrders, side \in Sides,
        shares \in ShareLits, price \in PriceLits }

\* Messages with a field missing, or with a quantity or price that is no number.
MalformedOrders ==
    { "shares:2,price:10",
      "type:buy,shares:x,price:3",
      "type:buy,shares:2,price:1x" }

\* Messages whose type is neither buy nor sell.
OtherTypeOrders == { "type:hold,shares:2,price:10.5" }

OrderMessages == ValidOrders \cup MalformedOrders \cup OtherTypeOrders

\* Requests and threads are named in their order of arrival.
Earlier(a, b) ==
    \/ a = "c1" /\ b = "c2"
    \/ a = "j1" /\ b = "j2"
    \/ a = "t1" /\ b = "t2"

Disconnect == "websocket.disconnect"   \* the disconnect event of receive()
Idle == "idle"                         \* no handler holds the event loop

\* ---------------------------------------------------------- Python strings
Min(a, b) == IF a < b THEN a ELSE b
Max(a, b) == IF a > b THEN a ELSE b

\* string[i], 0-based
CharAt(string, i) == SubSeq(string, i + 1, i + 1)

\* str.find(sub): the lowest 0-based index of sub in string, -1 if absent
Find(string, sub) ==
    LET hits == { i \in 0 .. Len(string) - Len(sub) :
                     SubSeq(string, i + 1, i + Len(sub)) = sub }
    IN  IF hits = {} THEN -1
        ELSE CHOOSE i \in hits : \A j \in hits : i <= j

\* string[start:], start >= 0
SliceFrom(string, start) == SubSeq(string, start + 1, Len(string))

\* string[:stop]; a negative stop counts from the end of the string
SliceTo(string, stop) ==
    IF stop >= 0 THEN SubSeq(string, 1, Min(stop, Len(string)))
    ELSE SubSeq(string, 1, Max(Len(string) + stop, 0))

RECURSIVE LStrip(_)
LStrip(string) ==
    IF Len(string) > 0 /\ CharAt(string, 0) = " "
    THEN LStrip(SliceFrom(string, 1)) ELSE string

RECURSIVE RStrip(_)
RStrip(string) ==
    IF Len(string) > 0 /\ CharAt(string, Len(string) - 1) = " "
    THEN RStrip(SliceTo(string, Len(string) - 1)) ELSE string

\* str.strip()
Strip(string) == RStrip(LStrip(string))

DigitChars == {"0", "1", "2", "3", "4", "5", "6", "7", "8", "9"}

DigitVal(c) ==
    CASE c = "0" -> 0 [] c = "1" -> 1 [] c = "2" -> 2 [] c = "3" -> 3
      [] c = "4" -> 4 [] c = "5" -> 5 [] c = "6" -> 6 [] c = "7" -> 7
      [] c = "8" -> 8 [] c = "9" -> 9

IsDigits(string) ==
    \A i \in 0 .. Len(string) - 1 : CharAt(string, i) \in DigitChars

RECURSIVE DigitsVal(_)
DigitsVal(string) ==
    IF Len(string) = 0 THEN 0
    ELSE 10 * DigitsVal(SliceTo(string, Len(string) - 1))
         + DigitVal(CharAt(string, Len(string) - 1))

\* float(string) accepts digits with at most one "." and at least one digit
\* ("10.", ".5" and "10" are floats, "" and "." are not).  Literals with
\* more than one fractional digit, signs and exponents are outside the
\* message alphabet of the model.
IsFloat(string) ==
    LET dot == Find(string, ".")
    IN  IF dot = -1 THEN Len(string) > 0 /\ IsDigits(string)
        ELSE /\ IsDigits(SliceTo(string, dot))
             /\ IsDigits(SliceFrom(string, dot + 1))
             /\ Len(string) > 1
             /\ Len(SliceFrom(string, dot + 1)) <= 1

\* float(string), in tenths
FloatOf(string) ==
    LET dot == Find(string, ".")
    IN  IF dot = -1 THEN 10 * DigitsVal(string)
        ELSE 10 * DigitsVal(SliceTo(string, dot))
             + DigitsVal(SliceFrom(string, dot + 1))

\* ------------------------------------------------------------- DictParser
\* DictParser._parse(key, string): None, or the pair (key, value)
DictParser_parse(key, string) ==
    LET keyl == Len(key)
        idx == Find(string, key \o ":")
    IN  IF idx = -1 THEN [found |-> FALSE, value |-> ""]
        ELSE LET rem == SliceFrom(string, idx + keyl + 1)
                 idx2 == Find(rem, ",")
             IN  [found |-> TRUE, value |-> Strip(SliceTo(rem, idx2))]

\* Transaction.from_string(string): DictParser(["type","shares","price"],
\* [str, float, float]) followed by Transaction.from_dict.  float() raises
\* ValueError inside the parser, a missing key raises KeyError in from_dict.
Transaction_from_string(string) ==
    LET type == DictParser_parse("type", string)
        shares == DictParser_parse("shares", string)
        price == DictParser_parse("price", string)
    IN  IF shares.found /\ ~IsFloat(shares.value) THEN [raised |-> "ValueError"]
        ELSE IF price.found /\ ~IsFloat(price.value) THEN [raised |-> "ValueError"]
        ELSE IF ~(type.found /\ shares.found /\ price.found)
             THEN [raised |-> "KeyError"]
        ELSE [raised |-> "no", transaction_type |-> type.value,
              shares |-> FloatOf(shares.value), price |-> FloatOf(price.value)]

\* ----------------------------------------------------- ParticipantSession
\* ParticipantSession(starting_balance, is_agent) with __post_init__
NewParticipantSession(starting_balance, is_agent) ==
    [starting_balance |-> starting_balance, is_agent |-> is_agent,
     num_trades |-> 0, available_shares |-> 0, balance |-> starting_balance]

\* The try block of ParticipantSession.handle_message on a parsed order.
ApplyTransaction(self, transaction) ==
    IF transaction.transaction_type = "buy"
    THEN [self EXCEPT !.num_trades = @ + 1,
                      !.balance = @ - transaction.shares * transaction.price,
                      !.available_shares = @ + transaction.shares]
    ELSE [self EXCEPT !.num_trades = @ + 1,
                      !.balance = @ + transaction.shares * transaction.price,
                      !.available_shares = @ - transaction.shares]

\* Transaction.from_string on each message the clients send, evaluated once.
ParsedOrder ==
    [text \in Messages \cup OrderMessages |-> Transaction_from_string(text)]

\* handle_message awaiting self.send(client) before it applies the order
handle_message_SendFirst(self, text) ==
    LET parsed == ParsedOrder[text]
    IN  IF parsed.raised # "no"
        THEN [ledger |-> self, sent |-> FALSE, sends |-> <<>>]
        ELSE [ledger |-> ApplyTransaction(self, parsed), sent |-> TRUE,
              sends |-> << self >>]

\* ParticipantSession.handle_message(client, text): the ledger after the
\* call, whether self.send(client) was awaited, and the asdict(self) values
\* that send passed to client.send_bytes.
handle_message(self, text) ==
    LET parsed == ParsedOrder[text]
    IN  IF parsed.raised # "no"
        THEN [ledger |-> self, sent |-> FALSE, sends |-> <<>>]
        ELSE [ledger |-> ApplyTransaction(self, parsed), sent |-> TRUE,
              sends |-> << ApplyTransaction(self, parsed) >>]

\* ------------------------------------------------------------------ state
VARIABLES
    ids,        \* SessionsManager.ids: session id -> Session object
    sessions,   \* the Session objects constructed so far, by constructing request
    pc,         \* where each websocket handler is
    running,    \* the handler that holds the event loop between two awaits
    req,        \* the query parameters of each join request
    raised,     \* the exception that ended a handler, "no" if none
    admitted,   \* what add_client returned to a join handler
    participant,\* session_participant of the handlers that have created one
    inbox,      \* frames a client has sent that receive() has not returned yet
    nsent,      \* number of frames the clients have sent
    published,  \* bodies basic_publish was called with, per handler
    thread,     \* the threads started by launch_session
    ledger,     \* a ParticipantSession whose handle_message is called directly
    texts,      \* the messages handle_message was called with on that ledger
    snapshots   \* what send_bytes was called with by ParticipantSession.send,
                \* per websocket

vars == <<ids, sessions, pc, running, req, raised, admitted, participant,
          inbox, nsent, published, thread, ledger, texts, snapshots>>

NoThread == [pc |-> "unborn", id |-> 0, session |-> "none", prices |-> <<>>,
             price |-> 0, elapsed |-> 0, i |-> 0, removed |-> 0, log |-> <<>>]

Init ==
    /\ ids = <<>>
    /\ sessions = <<>>
    /\ pc = [h \in Handlers |-> "new"]
    /\ running = Idle
    /\ req = [j \in Joiners |-> [session_id |-> 0, client_id |-> 0]]
    /\ raised = [h \in Handlers |-> "no"]
    /\ admitted = [j \in Joiners |-> "none"]
    /\ participant = <<>>
    /\ inbox = [j \in Joiners |-> <<>>]
    /\ nsent = 0
    /\ published = [h \in Handlers |-> <<>>]
    /\ thread = [t \in Threads |-> NoThread]
    /\ \E starting_balance \in Balances, is_agent \in AgentFlags :
          ledger = NewParticipantSession(starting_balance, is_agent)
    /\ texts = <<>>
    /\ snapshots = [j \in Joiners |-> <<>>]

\* The requests and launch_session calls made so far.
Started ==
    Cardinality({h \in Handlers : pc[h] # "new"})
    + Cardinality({t \in Threads : thread[t].pc # "unborn"})

\* ---------------------------------------------------------------- Session
\* Session(id=..., starting_balance=..., max_clients=..., duration=..., clients=[])
NewSession(id, starting_balance, max_clients, duration) ==
    [id |-> id, starting_balance |-> starting_balance,
     max_clients |-> max_clients, duration |-> duration, clients |-> <<>>]

\* Session.add_client with the capacity test written > instead of ==
Session_add_client_OffByOne(self, client, client_id) ==
    IF Len(self.clients) > self.max_clients
    THEN [ret |-> "False", session |-> self]
    ELSE [ret |-> "True",
          session |-> [self EXCEPT !.clients = Append(@, <<client, client_id>>)]]

\* Session.add_client appending before the capacity test
Session_add_client_AppendFirst(self, client, client_id) ==
    [ret |-> IF Len(self.clients) = self.max_clients THEN "False" ELSE "True",
     session |-> [self EXCEPT !.clients = Append(@, <<client, client_id>>)]]

\* Session.add_client(client, client_id): the returned bool and the session after
Session_add_client(self, client, client_id) ==
    IF Len(self.clients) = self.max_clients
    THEN [ret |-> "False", session |-> self]
    ELSE [ret |-> "True",
          session |-> [self EXCEPT !.clients = Append(@, <<client, client_id>>)]]

\* -------------------------------------------------------- SessionsManager
\* add_session without the membership test: the later session overwrites
add_session_Overwrite(table, id, obj) ==
    [k \in DOMAIN table \cup {id} |-> IF k = id THEN obj ELSE table[k]]

\* SessionsManager.add_session(session): the ids table after the call, where
\* obj names the Session object
add_session(table, id, obj) ==
    IF id \notin DOMAIN table THEN table @@ (id :> obj) ELSE table

\* add_client answering False for an unregistered id instead of raising
add_client_NoKeyError(table, objects, args) ==
    IF Len(args) # 3
    THEN [raised |-> "TypeError", ret |-> "none", sessions |-> objects]
    ELSE IF args[2] \notin DOMAIN table
    THEN [raised |-> "no", ret |-> "False", sessions |-> objects]
    ELSE LET obj == table[args[2]]
             r == Session_add_client(objects[obj], args[1], args[3])
         IN  [raised |-> "no", ret |-> r.ret,
              sessions |-> [objects EXCEPT ![obj] = r.session]]

\* SessionsManager.add_client called with the positional arguments args.
\* The method has the parameters (client, session_id, client_id): any other
\* number of arguments raises TypeError at the call, an unregistered
\* session_id raises KeyError at self.ids[session_id].
add_client(table, objects, args) ==
    IF Len(args) # 3
    THEN [raised |-> "TypeError", ret |-> "none", sessions |-> objects]
    ELSE IF args[2] \notin DOMAIN table
    THEN [raised |-> "KeyError", ret |-> "none", sessions |-> objects]
    ELSE LET obj == table[args[2]]
             r == Session_add_client(objects[obj], args[1], args[3])
         IN  [raised |-> "no", ret |-> r.ret,
              sessions |-> [objects EXCEPT ![obj] = r.session]]

\* SessionsManager.is_done(id)
is_done(id) == id \notin DOMAIN ids

\* SessionsManager.is_session_full(id), for a registered id
is_session_full(id) ==
    sessions[ids[id]].max_clients = Len(sessions[ids[id]].clients)

\* del self.ids[id]
DelId(table, id) == [k \in DOMAIN table \ {id} |-> table[k]]

\* ---------------------------------------------------- app.create_session
\* Lines 35-40: the websocket is accepted, the Session is constructed and
\* registered, then add_client((websocket, host_id)) is called with one
\* positional argument.  A Session that add_session did not register is
\* referenced by nothing once the handler has ended, and is dropped.
create_session(c) ==
    /\ pc[c] = "new"
    /\ \A b \in Creators : Earlier(b, c) => pc[b] # "new"
    /\ Started < MaxCalls
    /\ running = Idle
    /\ \E id \in SessionIds, starting_balance \in Balances,
          max_clients \in Capacities, duration \in Durations,
          host_id \in ClientIds :
          LET objects == sessions @@
                  (c :> NewSession(id, starting_balance, max_clients, duration))
              table == add_session(ids, id, c)
              r == add_client(table, objects, << <<c, host_id>> >>)
          IN  /\ ids' = table
              /\ r.raised # "no"
              /\ sessions' = IF table[id] = c THEN r.sessions ELSE sessions
              /\ raised' = [raised EXCEPT ![c] = r.raised]
              /\ pc' = [pc EXCEPT ![c] = "raised"]
    /\ UNCHANGED <<running, req, admitted, participant, inbox, nsent,
                   published, thread>>
    /\ UNCHANGED <<ledger, texts, snapshots>>

\* ------------------------------------------------------ app.join_session
\* Lines 68-70: the websocket is accepted, then
\* await session_manager.add_client(websocket, session_id, client_id);
\* the returned bool is dropped by the handler.
JoinAdmit(j) ==
    /\ pc[j] = "new"
    /\ \A b \in Joiners : Earlier(b, j) => pc[b] # "new"
    /\ Started < MaxCalls
    /\ running = Idle
    /\ \E session_id \in SessionIds, client_id \in ClientIds :
          LET r == add_client(ids, sessions, <<j, session_id, client_id>>)
          IN  /\ req' = [req EXCEPT ![j] = [session_id |-> session_id,
                                            client_id |-> client_id]]
              /\ sessions' = r.sessions
              /\ admitted' = [admitted EXCEPT ![j] = r.ret]
              /\ raised' = [raised EXCEPT ![j] = r.raised]
              /\ pc' = [pc EXCEPT ![j] = IF r.raised = "no" THEN "line72"
                                         ELSE "raised"]
              /\ running' = IF r.raised = "no" THEN j ELSE Idle
    /\ UNCHANGED <<ids, participant, inbox, nsent, published, thread>>
    /\ UNCHANGED <<ledger, texts, snapshots>>

\* Lines 72-73: session_manager[session_id] (KeyError when a broadcaster
\* thread has deleted the id since line 70), then the ledger is created.
JoinLedger(j) ==
    /\ pc[j] = "line72"
    /\ running = j
    /\ IF req[j].session_id \in DOMAIN ids
       THEN /\ \E is_agent \in AgentFlags :
                 participant' = participant @@ (j :>
                     NewParticipantSession(
                         sessions[ids[req[j].session_id]].starting_balance,
                         is_agent))
            /\ pc' = [pc EXCEPT ![j] = "line75"]
            /\ UNCHANGED <<raised, running>>
       ELSE /\ raised' = [raised EXCEPT ![j] = "KeyError"]
            /\ pc' = [pc EXCEPT ![j] = "raised"]
            /\ running' = Idle
            /\ UNCHANGED participant
    /\ UNCHANGED <<ids, sessions, req, admitted, inbox, nsent, published, thread>>
    /\ UNCHANGED <<ledger, texts, snapshots>>

\* join_session leaving its loop after one test, done or not
JoinLoop_NoDoneTest(j) ==
    /\ pc[j] = "line75"
    /\ running \in {j, Idle}
    /\ published' = [published EXCEPT ![j] = Append(@, participant[j])]
    /\ pc' = [pc EXCEPT ![j] = "done"]
    /\ running' = Idle
    /\ UNCHANGED <<ids, sessions, req, raised, admitted, participant, inbox,
                   nsent, thread>>
    /\ UNCHANGED <<ledger, texts, snapshots>>

\* Line 75, the loop test.  Session not done: the handler goes on to
\* await websocket.receive().  Session done: the loop is left and lines
\* 80-83 publish the ledger.
JoinLoop(j) ==
    /\ pc[j] = "line75"
    /\ running \in {j, Idle}
    /\ IF is_done(req[j].session_id)
       THEN /\ published' = [published EXCEPT ![j] = Append(@, participant[j])]
            /\ pc' = [pc EXCEPT ![j] = "done"]
       ELSE /\ pc' = [pc EXCEPT ![j] = "receive"]
            /\ UNCHANGED published
    /\ running' = Idle
    /\ UNCHANGED <<ids, sessions, req, raised, admitted, participant, inbox,
                   nsent, thread>>
    /\ UNCHANGED <<ledger, texts, snapshots>>

\* join_session with one ledger object shared by all handlers
JoinReceive_SharedLedger(j) ==
    /\ pc[j] = "receive"
    /\ running = Idle
    /\ inbox[j] # <<>>
    /\ inbox' = [inbox EXCEPT ![j] = Tail(@)]
    /\ IF Head(inbox[j]) = Disconnect
       THEN /\ raised' = [raised EXCEPT ![j] = "KeyError"]
            /\ pc' = [pc EXCEPT ![j] = "raised"]
            /\ UNCHANGED <<participant, running, snapshots>>
       ELSE LET r == handle_message(participant[j], Head(inbox[j]))
            IN  /\ participant' = [k \in DOMAIN participant |-> r.ledger]
                /\ snapshots' = [snapshots EXCEPT ![j] = @ \o r.sends]
                /\ pc' = [pc EXCEPT ![j] = "line75"]
                /\ running' = IF r.sent THEN Idle ELSE j
                /\ UNCHANGED raised
    /\ UNCHANGED <<ids, sessions, req, admitted, nsent, published, thread>>
    /\ UNCHANGED <<ledger, texts>>

\* Lines 76-78: receive() returns the next frame.  A disconnect event has no
\* "text" key (KeyError); a text frame goes to handle_message, which awaits
\* send() only when the order was applied.
\* The snapshot of self.send goes to the websocket of this handler.
JoinReceive(j) ==
    /\ pc[j] = "receive"
    /\ running = Idle
    /\ inbox[j] # <<>>
    /\ inbox' = [inbox EXCEPT ![j] = Tail(@)]
    /\ IF Head(inbox[j]) = Disconnect
       THEN /\ raised' = [raised EXCEPT ![j] = "KeyError"]
            /\ pc' = [pc EXCEPT ![j] = "raised"]
            /\ UNCHANGED <<participant, running, snapshots>>
       ELSE LET r == handle_message(participant[j], Head(inbox[j]))
            IN  /\ participant' = [participant EXCEPT ![j] = r.ledger]
                /\ snapshots' = [snapshots EXCEPT ![j] = @ \o r.sends]
                /\ pc' = [pc EXCEPT ![j] = "line75"]
                /\ running' = IF r.sent THEN Idle ELSE j
                /\ UNCHANGED raised
    /\ UNCHANGED <<ids, sessions, req, admitted, nsent, published, thread>>
    /\ UNCHANGED <<ledger, texts>>

\* ------------------------------------------------------------ the clients
\* The peer of an accepted join connection sends a text frame.
ClientSend(j) ==
    /\ pc[j] \notin {"new", "raised", "done"}
    /\ nsent < MaxMsgs
    /\ \A k \in 1 .. Len(inbox[j]) : inbox[j][k] # Disconnect
    /\ \E m \in Messages : inbox' = [inbox EXCEPT ![j] = Append(@, m)]
    /\ nsent' = nsent + 1
    /\ UNCHANGED <<ids, sessions, pc, running, req, raised, admitted,
                   participant, published, thread>>
    /\ UNCHANGED <<ledger, texts, snapshots>>

\* The peer of an accepted join connection closes it.
ClientDisconnect(j) ==
    /\ pc[j] \notin {"new", "raised", "done"}
    /\ nsent < MaxMsgs
    /\ \A k \in 1 .. Len(inbox[j]) : inbox[j][k] # Disconnect
    /\ inbox' = [inbox EXCEPT ![j] = Append(@, Disconnect)]
    /\ nsent' = nsent + 1
    /\ UNCHANGED <<ids, sessions, pc, running, req, raised, admitted,
                   participant, published, thread>>
    /\ UNCHANGED <<ledger, texts, snapshots>>

\* --------------------------------- ParticipantSession.handle_message alone
\* handle_message(client, text) is called on the ledger with one of the
\* order messages.
LedgerHandleMessage ==
    /\ Len(texts) < MaxOrders
    /\ \E text \in OrderMessages :
          /\ ledger' = handle_message(ledger, text).ledger
          /\ texts' = Append(texts, text)
    /\ UNCHANGED <<ids, sessions, pc, running, req, raised, admitted,
                   participant, inbox, nsent, published, thread, snapshots>>

\* ------------------------------------------ SessionsManager.launch_session
\* launch_session(id): a caller starts a thread running __handle_session(id).
launch_session(t, id) ==
    /\ thread[t].pc = "unborn"
    /\ \A b \in Threads : Earlier(b, t) => thread[b].pc # "unborn"
    /\ Started < MaxCalls
    /\ thread' = [thread EXCEPT ![t] =
           [thread[t] EXCEPT !.pc = "line503", !.id = id]]
    /\ UNCHANGED <<ids, sessions, pc, running, req, raised, admitted,
                   participant, inbox, nsent, published>>
    /\ UNCHANGED <<ledger, texts, snapshots>>

\* Lines 503-506: session = self.ids[id] (KeyError ends the thread), the
\* ClientManager shares the session's clients list, start = time.time().
HandleSessionStart(t) ==
    /\ thread[t].pc = "line503"
    /\ thread' = [thread EXCEPT ![t] =
           IF thread[t].id \in DOMAIN ids
           THEN [thread[t] EXCEPT !.pc = "line508",
                                  !.session = ids[thread[t].id]]
           ELSE [thread[t] EXCEPT !.pc = "raised"]]
    /\ UNCHANGED <<ids, sessions, pc, running, req, raised, admitted,
                   participant, inbox, nsent, published>>
    /\ UNCHANGED <<ledger, texts, snapshots>>

\* Lines 508-510 and 443: the duration has not elapsed; a price is drawn and
\* appended, and broadcast starts iterating over the clients list.
HandleSessionLoop(t) ==
    /\ thread[t].pc = "line508"
    /\ thread[t].elapsed < sessions[thread[t].session].duration
    /\ Len(thread[t].prices) < MaxTicks
    /\ \E price \in Prices :
          thread' = [thread EXCEPT ![t] =
              [thread[t] EXCEPT !.price = price,
                        !.prices = Append(@, price), !.i = 0,
                        !.pc = IF sessions[thread[t].session].clients = <<>>
                               THEN "line508" ELSE "broadcast"]]
    /\ UNCHANGED <<ids, sessions, pc, running, req, raised, admitted,
                   participant, inbox, nsent, published>>
    /\ UNCHANGED <<ledger, texts, snapshots>>

\* broadcast without the try: a send that raises ends the thread
Broadcast_Uncaught(t) ==
    /\ thread[t].pc = "broadcast"
    /\ \E outcome \in {"sent", "RuntimeError", "Exception"} :
          thread' = [thread EXCEPT ![t] =
              [thread[t] EXCEPT !.i = @ + 1,
                        !.log = Append(@,
                            [client |-> sessions[thread[t].session]
                                           .clients[thread[t].i + 1][1],
                             tick |-> Len(thread[t].prices),
                             price |-> thread[t].price,
                             prices |-> thread[t].prices,
                             sent |-> (outcome = "sent")]),
                        !.pc = IF outcome # "sent" THEN "raised"
                               ELSE IF thread[t].i + 1 <
                                  Len(sessions[thread[t].session].clients)
                               THEN "broadcast" ELSE "line508"]]
    /\ UNCHANGED <<ids, sessions, pc, running, req, raised, admitted,
                   participant, inbox, nsent, published>>
    /\ UNCHANGED <<ledger, texts, snapshots>>

\* broadcast sending the history as it was before the last append
Broadcast_StaleHistory(t) ==
    /\ thread[t].pc = "broadcast"
    /\ \E outcome \in {"sent", "RuntimeError", "Exception"} :
          thread' = [thread EXCEPT ![t] =
              [thread[t] EXCEPT !.i = @ + 1,
                        !.log = Append(@,
                            [client |-> sessions[thread[t].session]
                                           .clients[thread[t].i + 1][1],
                             tick |-> Len(thread[t].prices),
                             price |-> thread[t].price,
                             prices |-> SubSeq(thread[t].prices, 1,
                                               Len(thread[t].prices) - 1),
                             sent |-> (outcome = "sent")]),
                        !.pc = IF thread[t].i + 1 <
                                  Len(sessions[thread[t].session].clients)
                               THEN "broadcast" ELSE "line508"]]
    /\ UNCHANGED <<ids, sessions, pc, running, req, raised, admitted,
                   participant, inbox, nsent, published>>
    /\ UNCHANGED <<ledger, texts, snapshots>>

\* broadcast with the body of the for loop repeated: each client is sent
\* the tick twice
Broadcast_SendTwice(t) ==
    /\ thread[t].pc = "broadcast"
    /\ \E outcome \in {"sent", "RuntimeError", "Exception"} :
          LET entry == [client |-> sessions[thread[t].session]
                                      .clients[thread[t].i + 1][1],
                        tick |-> Len(thread[t].prices),
                        price |-> thread[t].price,
                        prices |-> thread[t].prices,
                        sent |-> (outcome = "sent")]
          IN  thread' = [thread EXCEPT ![t] =
                  [thread[t] EXCEPT !.i = @ + 1,
                            !.log = Append(Append(@, entry), entry),
                            !.pc = IF thread[t].i + 1 <
                                      Len(sessions[thread[t].session].clients)
                                   THEN "broadcast" ELSE "line508"]]
    /\ UNCHANGED <<ids, sessions, pc, running, req, raised, admitted,
                   participant, inbox, nsent, published>>
    /\ UNCHANGED <<ledger, texts, snapshots>>

\* ClientManager.broadcast, lines 443-450: send_text and send_bytes to the
\* next client of the (live) list; either may raise, which is caught.  The
\* log keeps, for every pass of the for loop, the connection, the number of
\* the tick and whether both sends returned.
Broadcast(t) ==
    /\ thread[t].pc = "broadcast"
    /\ \E outcome \in {"sent", "RuntimeError", "Exception"} :
          thread' = [thread EXCEPT ![t] =
              [thread[t] EXCEPT !.i = @ + 1,
                        !.log = Append(@,
                            [client |-> sessions[thread[t].session]
                                           .clients[thread[t].i + 1][1],
                             tick |-> Len(thread[t].prices),
                             price |-> thread[t].price,
                             prices |-> thread[t].prices,
                             sent |-> (outcome = "sent")]),
                        !.pc = IF thread[t].i + 1 <
                                  Len(sessions[thread[t].session].clients)
                               THEN "broadcast" ELSE "line508"]]
    /\ UNCHANGED <<ids, sessions, pc, running, req, raised, admitted,
                   participant, inbox, nsent, published>>
    /\ UNCHANGED <<ledger, texts, snapshots>>

\* handle_session returning at expiry without del self.ids[id]
HandleSessionExpire_NoDel(t) ==
    /\ thread[t].pc = "line508"
    /\ thread[t].elapsed >= sessions[thread[t].session].duration
    /\ thread' = [thread EXCEPT ![t] = [thread[t] EXCEPT !.pc = "exited"]]
    /\ UNCHANGED <<ids, sessions, pc, running, req, raised, admitted,
                   participant, inbox, nsent, published>>
    /\ UNCHANGED <<ledger, texts, snapshots>>

\* Lines 508 and 513-516: the duration has elapsed; del self.ids[id], where a
\* KeyError is caught and reported.
HandleSessionExpire(t) ==
    /\ thread[t].pc = "line508"
    /\ thread[t].elapsed >= sessions[thread[t].session].duration
    /\ ids' = IF thread[t].id \in DOMAIN ids THEN DelId(ids, thread[t].id)
              ELSE ids
    /\ thread' = [thread EXCEPT ![t] =
           [thread[t] EXCEPT !.pc = "exited",
                     !.removed = IF thread[t].id \in DOMAIN ids THEN 1 ELSE 0]]
    /\ UNCHANGED <<sessions, pc, running, req, raised, admitted,
                   participant, inbox, nsent, published>>
    /\ UNCHANGED <<ledger, texts, snapshots>>

\* time.time() advances by a second: every loop's time.time() - start grows
\* (kept up to the loop's duration, beyond which it decides nothing).
InLoop(t) == thread[t].pc \in {"line508", "broadcast"}

Tick ==
    /\ \E t \in Threads :
          InLoop(t) /\ thread[t].elapsed < sessions[thread[t].session].duration
    /\ thread' = [t \in Threads |->
           IF InLoop(t)
           THEN [thread[t] EXCEPT !.elapsed =
                    Min(@ + 1, sessions[thread[t].session].duration)]
           ELSE thread[t]]
    /\ UNCHANGED <<ids, sessions, pc, running, req, raised, admitted,
                   participant, inbox, nsent, published>>
    /\ UNCHANGED <<ledger, texts, snapshots>>

ThreadNext ==
    \/ \E t \in Threads : HandleSessionStart(t)
    \/ \E t \in Threads : HandleSessionLoop(t)
    \/ \E t \in Threads : Broadcast(t)
    \/ \E t \in Threads : HandleSessionExpire(t)
    \/ Tick

AppNext ==
    \/ \E c \in Creators : create_session(c)
    \/ \E j \in Joiners : JoinAdmit(j)
    \/ \E j \in Joiners : JoinLedger(j)
    \/ \E j \in Joiners : JoinLoop(j)
    \/ \E j \in Joiners : JoinReceive(j)
    \/ \E j \in Joiners : ClientSend(j)
    \/ \E j \in Joiners : ClientDisconnect(j)

\* The application alone: the two websocket handlers and their clients.
AppSpec == Init /\ [][AppNext]_vars

\* The application together with callers of launch_session and the threads
\* they start.
Next ==
    \/ AppNext
    \/ \E t \in Threads, id \in SessionIds : launch_session(t, id)
    \/ ThreadNext

Spec == Init /\ [][Next]_vars

\* A ParticipantSession by itself, handling a sequence of messages.
LedgerNext == LedgerHandleMessage

LedgerSpec == Init /\ [][LedgerNext]_vars

\* Scheduling.  The event loop resumes a handler that can run; a started
\* thread keeps running, its sends return or raise, and time passes.  The
\* arrival of requests, the frames the clients send and the calls of
\* launch_session are up to the environment, and get no fairness.  Every
\* counter of the model is bounded and no step undoes another, so a
\* behaviour can only end by stuttering: weak fairness of the steps taken
\* together then says the same as weak fairness of each step by itself.
HandlerStep ==
    \E j \in Joiners :
        JoinLedger(j) \/ JoinLoop(j) \/ JoinReceive(j)

FairAppSpec == AppSpec /\ WF_vars(HandlerStep)

FairSpec == Spec /\ WF_vars(HandlerStep \/ ThreadNext)

\* --------------------------------------------------------------- claims
\* The connections in the roster of a session object
Roster(obj) == { sessions[obj].clients[k][1] :
                    k \in 1 .. Len(sessions[obj].clients) }

\* Handler j has just run line 70 of join_session in this step.
AdmissionStep(j) == pc[j] = "new" /\ pc'[j] # "new"

\* Handler c has just run lines 35-40 of create_session in this step.
CreateStep(c) == pc[c] = "new" /\ pc'[c] # "new"

\* C1: on a session with max_clients >= 0 the roster size never exceeds
\* max_clients, and is_session_full holds exactly when the two are equal.
C1_RosterWithinCapacity ==
    /\ \A obj \in DOMAIN sessions :
          sessions[obj].max_clients >= 0 =>
              Len(sessions[obj].clients) <= sessions[obj].max_clients
    /\ \A id \in DOMAIN ids :
          is_session_full(id) <=>
              Len(sessions[ids[id]].clients) = sessions[ids[id]].max_clients

\* C1 witness: a session of capacity 1 or more is full, with two admissions
\* attempted on it.
C1_Witness ==
    \E id \in DOMAIN ids :
        /\ sessions[ids[id]].max_clients >= 1
        /\ is_session_full(id)
        /\ \A j \in Joiners : pc[j] # "new" /\ req[j].session_id = id
                               /\ raised[j] = "no"

\* C7: an admission to a session whose roster is at capacity returns False
\* and leaves every roster as it was.
C7_FullAdmissionFails ==
    [][\A j \in Joiners :
          ( /\ AdmissionStep(j)
            /\ req'[j].session_id \in DOMAIN ids
            /\ is_session_full(req'[j].session_id) )
          => (admitted'[j] = "False" /\ sessions' = sessions /\ ids' = ids)]_vars

\* C7 witness: an admission was refused on a session of capacity 1 whose
\* roster holds another connection.
C7_Witness ==
    \E j \in Joiners, id \in DOMAIN ids :
        /\ admitted[j] = "False"
        /\ req[j].session_id = id
        /\ sessions[ids[id]].max_clients = 1
        /\ Roster(ids[id]) = Joiners \ {j}

\* C10: a create request whose id is already registered leaves the entry of
\* that id as it was: the same Session object, with the same fields and roster.
C10_AddSessionIdempotent ==
    [][\A c \in Creators : CreateStep(c) =>
          \A id \in DOMAIN ids :
              /\ id \in DOMAIN ids'
              /\ ids'[id] = ids[id]
              /\ sessions'[ids[id]] = sessions[ids[id]]]_vars

\* C10 witness: the second create request carried the id of the first, whose
\* Session stays registered with a joiner in its roster.
C10_Witness ==
    /\ pc["c2"] = "raised"
    /\ "c2" \notin DOMAIN sessions
    /\ \E id \in DOMAIN ids : ids[id] = "c1" /\ Roster("c1") # {}

\* The threads launch_session has started for a session id
LoopsStarted(id) ==
    Cardinality({t \in Threads : thread[t].pc # "unborn" /\ thread[t].id = id})

\* The Broadcast Loops running for a session id
LoopsRunning(id) ==
    Cardinality({t \in Threads : InLoop(t) /\ thread[t].id = id})

\* Handler j is in the receive loop of lines 75-78.
InReceiveLoop(j) == pc[j] \in {"line75", "receive"}

\* C2: for every session id the Broadcast Loop is started exactly once: no
\* two loops run for the same id, and once the create handler that
\* registered the session has ended, one loop has been started for its id.
C2_LoopStartedExactlyOnce ==
    \A id \in SessionIds :
        /\ LoopsRunning(id) <= 1
        /\ \A c \in Creators :
              ( /\ pc[c] \in {"raised", "done"}
                /\ c \in DOMAIN sessions
                /\ sessions[c].id = id )
              => LoopsStarted(id) = 1

\* C3: once the session of a handler in its receive loop has been removed
\* from the Registry, the handler eventually publishes its ledger, unless
\* its peer closed the connection.
C3_RemovalUnblocksHandlers ==
    \A j \in Joiners :
        (InReceiveLoop(j) /\ is_done(req[j].session_id))
            ~> (published[j] # <<>> \/ raised[j] # "no")

\* C4: once a session of capacity 1 or more is registered and as many
\* participants as its capacity allows have been admitted, so that its
\* roster is full, a Broadcast Loop is eventually launched for it.
C4_EventuallyLaunched ==
    \A id \in SessionIds :
        ( /\ id \in DOMAIN ids
          /\ sessions[ids[id]].max_clients >= 1
          /\ is_session_full(id) )
        ~> (LoopsStarted(id) >= 1)

\* C5: after a create request for an id that was not registered, with a
\* capacity of 1 or more, the host's connection is in the session's roster.
C5_HostInRoster ==
    \A c \in Creators :
        ( /\ pc[c] # "new"
          /\ c \in DOMAIN sessions
          /\ sessions[c].max_clients >= 1 )
        => c \in Roster(c)

\* C6: a running Broadcast Loop eventually exits; it exits only when its
\* duration has elapsed, the exit leaves its session id unregistered and
\* removes no other entry, no other step of the loop changes the Registry,
\* and after the exit the thread does nothing more.
C6_LoopTerminates ==
    /\ \A t \in Threads : InLoop(t) ~> (thread[t].pc = "exited")
    /\ [][\A t \in Threads :
            /\ (InLoop(t) /\ thread'[t].pc = "exited") =>
                  /\ thread[t].elapsed >= sessions[thread[t].session].duration
                  /\ is_done(thread[t].id)'
                  /\ ids' = DelId(ids, thread[t].id)
            /\ (thread'[t] # thread[t] /\ thread'[t].pc # "exited") =>
                  ids' = ids
            /\ thread[t].pc = "exited" => thread'[t] = thread[t]]_vars

\* C6 witness: a loop has broadcast a tick, expired, removed its session's
\* entry and exited.
C6_Witness ==
    \E t \in Threads :
        /\ thread[t].pc = "exited"
        /\ thread[t].removed = 1
        /\ thread[t].prices # <<>>
        /\ thread[t].i >= 1
        /\ is_done(thread[t].id)

\* C8: a join request on a session at capacity gets no ledger, and no
\* ledger is published for it.
C8_FullJoinGetsNoLedger ==
    \A j \in Joiners :
        admitted[j] = "False" =>
            (j \notin DOMAIN participant /\ published[j] = <<>>)

\* C9: add_client for a session id that is not registered raises KeyError
\* to the join handler, which ends there; the Registry and every roster stay
\* as they were and the connection never gets a ledger.
C9_UnknownSessionFails ==
    /\ [][\A j \in Joiners :
            (AdmissionStep(j) /\ req'[j].session_id \notin DOMAIN ids) =>
                /\ raised'[j] = "KeyError"
                /\ pc'[j] = "raised"
                /\ ids' = ids
                /\ sessions' = sessions]_vars
    /\ [](\A j \in Joiners :
            (pc[j] = "raised" /\ admitted[j] = "none") =>
                (j \notin DOMAIN participant /\ published[j] = <<>>))

\* C9 witness: the second join request named the session the first one was
\* admitted to, after a Broadcast Loop had removed that session at expiry,
\* and was refused with KeyError; its connection has no ledger.
C9_Witness ==
    /\ pc["j2"] = "raised"
    /\ admitted["j2"] = "none"
    /\ raised["j2"] = "KeyError"
    /\ "j2" \notin DOMAIN participant
    /\ admitted["j1"] = "True"
    /\ req["j1"].session_id = req["j2"].session_id
    /\ \E t \in Threads : /\ thread[t].removed = 1
                          /\ thread[t].id = req["j2"].session_id
                          /\ thread[t].session \in DOMAIN sessions
                          /\ "j1" \in Roster(thread[t].session)

\* C11: a participant id appears at most once in the roster of a session.
C11_ParticipantIdUnique ==
    \A obj \in DOMAIN sessions :
        \A k, l \in 1 .. Len(sessions[obj].clients) :
            k # l => sessions[obj].clients[k][2] # sessions[obj].clients[l][2]

\* The order message with the fields in the documented order
Order(side, shares, price) == OrderText(<<1, 2, 3>>, side, shares, price)

\* C12: on a fresh ledger with starting balance B, a buy of s shares at
\* price p leaves balance B - s*p and s shares held; a following sell of s
\* shares at price p2 leaves balance B - s*p + s*p2 and no shares held.
C12_BuyThenSell ==
    \A shares \in ShareLits, p \in PriceLits, p2 \in PriceLits :
        LET B == ledger.starting_balance
            s == FloatOf(shares)
        IN  /\ texts = << Order("buy", shares, p) >> =>
                  /\ ledger.balance = B - s * FloatOf(p)
                  /\ ledger.available_shares = s
            /\ texts = << Order("buy", shares, p), Order("sell", shares, p2) >> =>
                  /\ ledger.balance = B - s * FloatOf(p) + s * FloatOf(p2)
                  /\ ledger.available_shares = 0

\* C13: num_trades is the number of valid orders among the messages handled,
\* an order being valid with its three fields in any order.
C13_TradeCountIsValidOrders ==
    ledger.num_trades =
        Cardinality({ k \in 1 .. Len(texts) : texts[k] \in ValidOrders })

\* C14: handling a malformed message (a field missing, a quantity or price
\* that is no number) leaves the ledger as it was.
C14_MalformedLeavesLedger ==
    [][(texts' # texts /\ texts'[Len(texts')] \in MalformedOrders)
          => ledger' = ledger]_vars

\* C15: "type:buy,shares:2,price:10.5" parses to side buy, 2 shares, price
\* 10.5: the last field is read up to the end of the string.
C15_LastFieldReadToEnd ==
    \A k \in 1 .. Len(texts) :
        texts[k] = "type:buy,shares:2,price:10.5" =>
            ParsedOrder[texts[k]] =
                [raised |-> "no", transaction_type |-> "buy",
                 shares |-> FloatOf("2"), price |-> FloatOf("10.5")]

\* C16: the permutations of the three fields of an order parse to the same
\* Transaction and have the same effect on a ledger.
C16_FieldOrderIrrelevant ==
    \A k \in 1 .. Len(texts) :
        \A perm \in FieldOrders, side \in Sides,
           shares \in ShareLits, price \in PriceLits :
            texts[k] = OrderText(perm, side, shares, price) =>
                \A other \in FieldOrders :
                    LET text == OrderText(other, side, shares, price)
                        fresh == NewParticipantSession(ledger.starting_balance,
                                                       ledger.is_agent)
                    IN  /\ ParsedOrder[text] = ParsedOrder[texts[k]]
                        /\ handle_message(fresh, text) =
                              handle_message(fresh, texts[k])

\* The passes of the for loop of broadcast that thread t has made for tick n
Attempts(t, n) == { k \in 1 .. Len(thread[t].log) : thread[t].log[k].tick = n }

\* Thread t takes a pass of the for loop of broadcast in this step (a step
\* that is not the passing of time).
BroadcastStep(t) ==
    /\ thread[t].pc = "broadcast"
    /\ thread'[t] # thread[t]
    /\ thread'[t].elapsed = thread[t].elapsed

C18_TicksInOrder ==
    \A t \in Threads :
        \A a, b \in 1 .. Len(thread[t].log) :
            (a < b /\ thread[t].log[a].client = thread[t].log[b].client)
                => thread[t].log[a].tick < thread[t].log[b].tick

\* C18 witness: two connections have each been sent tick 1 and then tick 2.
C18_Witness ==
    \E t \in Threads :
        \A j \in Joiners :
            \E a, b \in 1 .. Len(thread[t].log) :
                /\ a < b
                /\ thread[t].log[a].client = j /\ thread[t].log[b].client = j
                /\ thread[t].log[a].tick = 1 /\ thread[t].log[a].sent
                /\ thread[t].log[b].tick = 2 /\ thread[t].log[b].sent

\* C19: the create handler of a registered session of capacity 1 or more
\* whose roster does not fill ends with SessionAdmissionTimeout.
C19_AdmissionWaitTimesOut ==
    \A c \in Creators :
        ( /\ pc[c] # "new"
          /\ c \in DOMAIN sessions
          /\ sessions[c].max_clients >= 1 )
        ~> ( \/ /\ c \in DOMAIN sessions
                /\ Len(sessions[c].clients) = sessions[c].max_clients
             \/ raised[c] = "SessionAdmissionTimeout" )

\* C20: a handler publishes its ledger at most once, only when is_done holds
\* for its session id, the body is the ledger as it then is, and after the
\* publish neither the ledger nor what was published changes.
C20_LedgerPublishedOnce ==
    [][\A h \in Handlers :
          /\ published'[h] # published[h] =>
                /\ h \in Joiners
                /\ is_done(req[h].session_id)
                /\ published[h] = <<>>
                /\ published'[h] = << participant[h] >>
                /\ participant'[h] = participant[h]
          /\ published[h] # <<>> =>
                /\ published'[h] = published[h]
                /\ participant'[h] = participant[h]
                /\ pc'[h] = "done"]_vars

\* C20 witness: a handler that applied an order has published its ledger
\* after a Broadcast Loop removed its session.
C20_Witness ==
    \E j \in Joiners, t \in Threads :
        /\ pc[j] = "done"
        /\ published[j] = << participant[j] >>
        /\ participant[j].num_trades = 1
        /\ thread[t].removed = 1
        /\ thread[t].id = req[j].session_id

\* C21: every body handed to basic_publish carries the session id and the
\* participant id of the ledger it reports.
C21_PublishedRecordIdentified ==
    \A h \in Handlers :
        \A k \in 1 .. Len(published[h]) :
            {"session_id", "participant_id"} \subseteq DOMAIN published[h][k]

\* launch_session is called and starts thread t in this step.
LaunchStep(t) == thread[t].pc = "unborn" /\ thread'[t].pc # "unborn"

C27_NoOrderAfterRemoval ==
    [][\A j \in DOMAIN participant :
          is_done(req[j].session_id) => participant'[j] = participant[j]]_vars

\* C28: the exit of a Broadcast Loop leaves in the Registry every entry that
\* is not the Session object the loop runs on.
C28_LoopRemovesOwnSessionOnly ==
    [][\A t \in Threads :
          (InLoop(t) /\ thread'[t].pc = "exited") =>
              \A id \in DOMAIN ids :
                  ids[id] # thread[t].session =>
                      (id \in DOMAIN ids' /\ ids'[id] = ids[id])]_vars

\* C29: handling an order whose type is neither buy nor sell leaves the
\* ledger as it was.
C29_OtherTypeLeavesLedger ==
    [][(texts' # texts /\ texts'[Len(texts')] \in OtherTypeOrders)
          => ledger' = ledger]_vars

\* receive() returns a frame to handler j in this step.
ReceiveStep(j) == Len(inbox'[j]) < Len(inbox[j])

C26_OnlyOwnLedgerChanges ==
    [][\A j \in Joiners : ReceiveStep(j) =>
          /\ DOMAIN participant' = DOMAIN participant
          /\ \A k \in DOMAIN participant \ {j} : participant'[k] = participant[k]
          /\ sessions' = sessions
          /\ ids' = ids]_vars

\* C26 witness: of two connections with a ledger in one session, one has had
\* an order applied and the other's ledger is as it was created.
C26_Witness ==
    \E j, k \in DOMAIN participant :
        /\ j # k
        /\ req[j].session_id = req[k].session_id
        /\ participant[j].num_trades = 1
        /\ inbox[j] = <<>>
        /\ participant[k] = NewParticipantSession(participant[k].starting_balance,
                                                  participant[k].is_agent)

====
